---- MODULE Spec2Model ----
(***************************************************************************)
(* A model of the AGiXT Rust SDK client (agixt-sdk/src/client).            *)
(*                                                                         *)
(* Rust strings are sequences of characters (one-character TLA+ strings);  *)
(* a response body is the sequence of the lexical symbols of its text.     *)
(* JSON values, Option and Result are tagged records [t |-> tag, ...].     *)
(***************************************************************************)
EXTENDS Integers, Sequences, FiniteSets, TLC

\* ------------------------------------------------------------------ bounds
\* most "Bearer "-like pieces a constructor credential is built from
MaxKeyParts == 2
\* most trailing slashes on a constructor base URI
MaxSlashes == 2
\* longest listing a list endpoint returns
MaxList == 2
\* tasks calling the one client concurrently
NumTasks == 2
\* most agents the server holds at a time
MaxAgents == 3
\* most agents the server creates in all
MaxIds == 4

\* ------------------------------------------------------- Option and Result
None == [t |-> "None"]
Some(x) == [t |-> "Some", v |-> x]

Ok(x) == [t |-> "Ok", v |-> x]
Unit == [t |-> "unit"]
\* Error::ApiError { status, message }
ApiError(status, message) == [t |-> "ApiError", status |-> status, message |-> message]
\* Error::JsonError (From<serde_json::Error>)
JsonError == [t |-> "JsonError"]
\* Error::RequestError (From<reqwest::Error>)
RequestError == [t |-> "RequestError"]

\* ------------------------------------------------------------ str helpers
starts_with(s, p) == Len(s) >= Len(p) /\ SubSeq(s, 1, Len(p)) = p

\* str::contains(pat)
contains(s, pat) == \E i \in 1..(Len(s) - Len(pat) + 1) : SubSeq(s, i, i + Len(pat) - 1) = pat

RECURSIVE replace(_, _)
\* str::replace(pat, ""): every non-overlapping match, left to right
replace(s, pat) ==
    IF s = <<>> THEN <<>>
    ELSE IF starts_with(s, pat) THEN replace(SubSeq(s, Len(pat) + 1, Len(s)), pat)
    ELSE <<Head(s)>> \o replace(Tail(s), pat)

\* a trim that drops one trailing c at most
trim_end_matches_one(s, c) ==
    IF s # <<>> /\ s[Len(s)] = c THEN SubSeq(s, 1, Len(s) - 1) ELSE s

RECURSIVE trim_end_matches(_, _)
\* str::trim_end_matches(c): drop every trailing c
trim_end_matches(s, c) ==
    IF s # <<>> /\ s[Len(s)] = c THEN trim_end_matches(SubSeq(s, 1, Len(s) - 1), c) ELSE s

\* ---------------------------------------------------------------- headers
\* bytes HeaderValue::from_str rejects (below 32 except tab, or 127)
InvalidHeaderChars == {"DEL", "LF"}

\* HeaderValue::from_str(s).is_ok()
HeaderValue_from_str_ok(s) == \A i \in 1..Len(s) : s[i] \notin InvalidHeaderChars

CONTENT_TYPE == "content-type"
AUTHORIZATION == "authorization"
ApplicationJson == <<"application/json">>

\* HeaderMap::new()
HeaderMap_new == [n \in {} |-> <<>>]

\* HeaderMap::insert(name, value): insert or replace
insert(h, name, value) ==
    [n \in (DOMAIN h) \cup {name} |-> IF n = name THEN value ELSE h[n]]

\* the insert guarded by `if let Ok(value) = HeaderValue::from_str(..)`
insert_if_valid(h, value) ==
    IF HeaderValue_from_str_ok(value) THEN insert(h, AUTHORIZATION, value) ELSE h

\* Authorization value of a header map, as an Option
auth_of(h) == IF AUTHORIZATION \in DOMAIN h THEN Some(h[AUTHORIZATION]) ELSE None

\* ------------------------------------------------------------ constructor
Bearer_ == <<"B", "e", "a", "r", "e", "r", " ">>
bearer_ == <<"b", "e", "a", "r", "e", "r", " ">>
BEARER_ == <<"B", "E", "A", "R", "E", "R", " ">>
DefaultBaseUri == <<"http://localhost:7437">>

\* Arc::new(reqwest::Client::new())
Client_new == [t |-> "reqwest::Client"]

\* a constructor without a default base URI that always logs
new_without_defaults(base_uri_arg, api_key_arg, verbose_arg) ==
    [base_uri |-> IF base_uri_arg.t = "Some" THEN trim_end_matches(base_uri_arg.v, "/")
                  ELSE <<>>,
     headers |-> insert(HeaderMap_new, CONTENT_TYPE, ApplicationJson),
     verbose |-> TRUE,
     client |-> Client_new]

\* AGiXTSDK::new(base_uri, api_key, verbose)
new(base_uri_arg, api_key_arg, verbose_arg) ==
    LET h0 == insert(HeaderMap_new, CONTENT_TYPE, ApplicationJson)
        h1 == IF api_key_arg.t = "Some"
              THEN insert_if_valid(h0, replace(replace(api_key_arg.v, Bearer_), bearer_))
              ELSE h0
        b0 == IF base_uri_arg.t = "Some" THEN base_uri_arg.v ELSE DefaultBaseUri
    IN  [base_uri |-> trim_end_matches(b0, "/"), headers |-> h1, verbose |-> verbose_arg,
         client |-> Client_new]

\* ------------------------------------------------------------- JSON values
\* serde_json::Value
JNull == [t |-> "null"]
JBool(b) == [t |-> "bool", v |-> b]
JStr(s) == [t |-> "str", v |-> s]
JArr(items) == [t |-> "arr", v |-> items]
\* an object is the sequence of its <<key, value>> members
JObj(members) == [t |-> "obj", v |-> members]

\* Value::get(key) on an object: the value of the last member with that key
get(j, key) ==
    IF j.t = "obj" /\ \E i \in 1..Len(j.v) : j.v[i][1] = key
    THEN Some(j.v[CHOOSE i \in 1..Len(j.v) :
                    j.v[i][1] = key /\ \A k \in (i + 1)..Len(j.v) : j.v[k][1] # key][2])
    ELSE None

\* .and_then(|v| v.as_str())
and_then_as_str(o) == IF o.t = "Some" /\ o.v.t = "str" THEN Some(o.v.v) ELSE None

\* .and_then(|v| v.as_array())
and_then_as_array(o) == IF o.t = "Some" /\ o.v.t = "arr" THEN Some(o.v.v) ELSE None

\* Option::or
or(a, b) == IF a.t = "Some" THEN a ELSE b

\* ------------------------------------------------- serde_json::from_str
Fail == [ok |-> FALSE]
Parsed(val, next) == [ok |-> TRUE, val |-> val, next |-> next]

\* a string literal opening at text[i]: the symbols up to the next quote
parse_string(text, i) ==
    IF \E j \in (i + 1)..Len(text) : text[j] = "\""
    THEN LET j == CHOOSE j \in (i + 1)..Len(text) :
                      text[j] = "\"" /\ \A k \in (i + 1)..(j - 1) : text[k] # "\""
         IN  Parsed(SubSeq(text, i + 1, j - 1), j + 1)
    ELSE Fail

RECURSIVE parse_value(_, _)
RECURSIVE parse_elements(_, _, _)
RECURSIVE parse_members(_, _, _)

parse_value(text, i) ==
    IF i > Len(text) THEN Fail
    ELSE CASE text[i] = "null" -> Parsed(JNull, i + 1)
           [] text[i] = "true" -> Parsed(JBool(TRUE), i + 1)
           [] text[i] = "false" -> Parsed(JBool(FALSE), i + 1)
           [] text[i] = "\"" ->
                LET r == parse_string(text, i)
                IN  IF r.ok THEN Parsed(JStr(r.val), r.next) ELSE Fail
           [] text[i] = "[" ->
                IF i + 1 <= Len(text) /\ text[i + 1] = "]"
                THEN Parsed(JArr(<<>>), i + 2)
                ELSE parse_elements(text, i + 1, <<>>)
           [] text[i] = "{" ->
                IF i + 1 <= Len(text) /\ text[i + 1] = "}"
                THEN Parsed(JObj(<<>>), i + 2)
                ELSE parse_members(text, i + 1, <<>>)
           [] OTHER -> Fail

parse_elements(text, i, acc) ==
    LET r == parse_value(text, i)
    IN  IF ~r.ok \/ r.next > Len(text) THEN Fail
        ELSE IF text[r.next] = "," THEN parse_elements(text, r.next + 1, Append(acc, r.val))
        ELSE IF text[r.next] = "]" THEN Parsed(JArr(Append(acc, r.val)), r.next + 1)
        ELSE Fail

parse_members(text, i, acc) ==
    IF i > Len(text) \/ text[i] # "\"" THEN Fail
    ELSE LET k == parse_string(text, i)
         IN  IF ~k.ok \/ k.next > Len(text) \/ text[k.next] # ":" THEN Fail
             ELSE LET r == parse_value(text, k.next + 1)
                  IN  IF ~r.ok \/ r.next > Len(text) THEN Fail
                      ELSE IF text[r.next] = ","
                           THEN parse_members(text, r.next + 1, Append(acc, <<k.val, r.val>>))
                      ELSE IF text[r.next] = "}"
                           THEN Parsed(JObj(Append(acc, <<k.val, r.val>>)), r.next + 1)
                      ELSE Fail

\* Deserializer::end: the value read is the whole text
end(r, text) == IF r.ok /\ r.next = Len(text) + 1 THEN Ok(r.val) ELSE JsonError

\* serde_json::from_str::<serde_json::Value>(text): one value, nothing after it
from_str(text) == end(parse_value(text, 1), text)

\* ------------------------------------------------- serde_json::to_string
RECURSIVE to_string(_)
RECURSIVE to_string_items(_, _)
RECURSIVE to_string_members(_, _)

Quoted(s) == <<"\"">> \o s \o <<"\"">>

to_string(j) ==
    CASE j.t = "null" -> <<"null">>
      [] j.t = "bool" -> IF j.v THEN <<"true">> ELSE <<"false">>
      [] j.t = "str" -> Quoted(j.v)
      [] j.t = "arr" -> <<"[">> \o to_string_items(j.v, 1) \o <<"]">>
      [] j.t = "obj" -> <<"{">> \o to_string_members(j.v, 1) \o <<"}">>

to_string_items(items, i) ==
    IF i > Len(items) THEN <<>>
    ELSE (IF i > 1 THEN <<",">> ELSE <<>>) \o to_string(items[i]) \o to_string_items(items, i + 1)

to_string_members(members, i) ==
    IF i > Len(members) THEN <<>>
    ELSE (IF i > 1 THEN <<",">> ELSE <<>>) \o Quoted(members[i][1]) \o <<":">>
         \o to_string(members[i][2]) \o to_string_members(members, i + 1)

\* ------------------------------------------------ response processing
\* StatusCode::is_success
is_success(status) == status >= 200 /\ status <= 299

\* a parse_response that only logs
parse_response_logging(status, body) == Ok(Unit)

\* AGiXTSDK::parse_response (the console output is not modelled)
parse_response(status, body) ==
    IF is_success(status) THEN Ok(Unit) ELSE ApiError(status, body)

\* a verbose check that accepts no status but 200
verbose_check_200(verbose_flag, status, text) ==
    IF verbose_flag /\ status # 200 THEN ApiError(status, text) ELSE Ok(Unit)

\* `if self.verbose { self.parse_response(status, &text).await?; }`
verbose_check(verbose_flag, status, text) ==
    IF verbose_flag THEN parse_response(status, text) ELSE Ok(Unit)

K_agents == <<"agents">>
K_conversations == <<"conversations">>
K_conversations_with_ids == <<"conversations_with_ids">>
K_providers == <<"providers">>
K_prompts == <<"prompts">>
K_message == <<"message">>
K_name == <<"name">>
K_id == <<"id">>
K_token == <<"token">>
K_detail == <<"detail">>
K_response == <<"response">>
K_otp_uri == <<"otp_uri">>

\* field types of the derived response structs
VecOfMaps == "Vec<HashMap<String, Value>>"
VecOfValues == "Vec<Value>"
String == "String"

\* value j deserializes into field type ty
has_type(j, ty) ==
    CASE ty = VecOfMaps -> j.t = "arr" /\ \A i \in 1..Len(j.v) : j.v[i].t = "obj"
      [] ty = VecOfValues -> j.t = "arr"
      [] ty = String -> j.t = "str"

\* #[derive(Deserialize)] for a struct with the one field `key`, on the parsed
\* text p: an object holding the field once with a value of its type, or the
\* sequence form of the struct (an array of exactly that one value)
deserialize_struct(p, key, field_type) ==
    IF p.t # "Ok" THEN JsonError
    ELSE IF p.v.t = "obj"
         THEN IF /\ Cardinality({i \in 1..Len(p.v.v) : p.v.v[i][1] = key}) = 1
                 /\ has_type(get(p.v, key).v, field_type)
              THEN Ok(get(p.v, key).v) ELSE JsonError
    ELSE IF p.v.t = "arr"
         THEN IF Len(p.v.v) = 1 /\ has_type(p.v.v[1], field_type) THEN Ok(p.v.v[1]) ELSE JsonError
    ELSE JsonError

\* serde_json::from_str::<S>(text) for such a struct S
from_str_struct(text, key, field_type) ==
    deserialize_struct(from_str(text), key, field_type)

\* a method result together with the token it hands to the header write
Returns(result) == [result |-> result, write |-> None]

\* AGiXTSDK::get_agents, from the response on
get_agents_decode(verbose_flag, status, text) ==
    LET c == verbose_check(verbose_flag, status, text)
    IN  IF c.t # "Ok" THEN c ELSE from_str_struct(text, K_agents, VecOfMaps)

\* a loop that keeps the last match instead of returning at the first
scan_values_last(items, i, wanted) ==
    LET hits == {n \in i..Len(items) : and_then_as_str(get(items[n], K_name)) = Some(wanted)}
    IN  IF hits = {} THEN None
        ELSE and_then_as_str(get(items[CHOOSE n \in hits : \A o \in hits : o <= n], K_id))

RECURSIVE scan_values(_, _, _)
\* the `for` loop of the agent, chain and prompt helpers, from index i on
scan_values(items, i, wanted) ==
    IF i > Len(items) THEN None
    ELSE LET name == and_then_as_str(get(items[i], K_name))
         IN  IF name.t = "Some" /\ name.v = wanted
             THEN and_then_as_str(get(items[i], K_id))
             ELSE scan_values(items, i + 1, wanted)

\* a helper that reports a missing name as an error
find_id_or_error(items, wanted) ==
    IF items.t # "Ok" THEN items
    ELSE IF scan_values(items.v.v, 1, wanted) = None THEN ApiError(404, wanted)
    ELSE Ok(scan_values(items.v.v, 1, wanted))

\* `let items = self.get_xs().await?;` followed by the loop and `Ok(None)`
find_id(items, wanted) ==
    IF items.t # "Ok" THEN items ELSE Ok(scan_values(items.v.v, 1, wanted))

\* a lookup that returns the id of the first listed agent, whatever its name
get_agent_id_by_name_decode_first(verbose_flag, status, text, agent_name) ==
    LET items == get_agents_decode(verbose_flag, status, text)
    IN  IF items.t # "Ok" THEN items
        ELSE IF Len(items.v.v) = 0 THEN Ok(None)
        ELSE Ok(and_then_as_str(get(items.v.v[1], K_id)))

\* AGiXTSDK::get_agent_id_by_name
get_agent_id_by_name_decode(verbose_flag, status, text, agent_name) ==
    find_id(get_agents_decode(verbose_flag, status, text), agent_name)

\* an add_agent that expects its answer under an `agents` envelope field
add_agent_decode_enveloped(verbose_flag, status, text) ==
    LET c == verbose_check(verbose_flag, status, text)
    IN  IF c.t # "Ok" THEN c ELSE from_str_struct(text, K_agents, VecOfMaps)

\* the methods ending in `Ok(serde_json::from_str(&text)?)` (add_agent, ...)
add_agent_decode(verbose_flag, status, text) ==
    LET c == verbose_check(verbose_flag, status, text)
    IN  IF c.t # "Ok" THEN c ELSE from_str(text)

\* AGiXTSDK::delete_agent and the other MessageResponse methods
delete_agent_decode(verbose_flag, status, text) ==
    LET c == verbose_check(verbose_flag, status, text)
    IN  IF c.t # "Ok" THEN c ELSE from_str_struct(text, K_message, String)

\* the `if let Some(array) = data.as_array() .. else if let Some(..) =
\* data.get(key).and_then(|v| v.as_array()) .. else Ok(vec![])` of the listing
\* methods, on the parsed text
array_or_field(data, key) ==
    IF data.t # "Ok" THEN data
    ELSE IF data.v.t = "arr" THEN Ok(data.v)
    ELSE IF and_then_as_array(get(data.v, key)).t = "Some"
         THEN Ok(JArr(and_then_as_array(get(data.v, key)).v))
    ELSE Ok(JArr(<<>>))

\* AGiXTSDK::prompt_agent, to which instruct and chat hand their arguments
prompt_agent_decode(verbose_flag, status, text) ==
    LET c == verbose_check(verbose_flag, status, text)
    IN  IF c.t # "Ok" THEN c ELSE from_str_struct(text, K_response, String)

\* AGiXTSDK::submit_feedback, to which positive_feedback and negative_feedback
\* hand their arguments
submit_feedback_decode(verbose_flag, status, text) ==
    LET c == verbose_check(verbose_flag, status, text)
    IN  IF c.t # "Ok" THEN c ELSE from_str_struct(text, K_message, String)

\* the array-or-object listing methods (get_conversations, get_providers, ...)
list_or_field_decode(verbose_flag, status, text, key) ==
    LET c == verbose_check(verbose_flag, status, text)
    IN  IF c.t # "Ok" THEN c ELSE array_or_field(from_str(text), key)

\* AGiXTSDK::get_conversations
get_conversations_decode(verbose_flag, status, text) ==
    list_or_field_decode(verbose_flag, status, text, K_conversations)

\* AGiXTSDK::get_providers
get_providers_decode(verbose_flag, status, text) ==
    list_or_field_decode(verbose_flag, status, text, K_providers)

\* the HashMap<String, String> built for one conversation object
id_name_map(conv) ==
    LET id == and_then_as_str(get(conv, K_id))
        name == and_then_as_str(get(conv, K_name))
    IN  [k \in (IF id.t = "Some" THEN {K_id} ELSE {})
               \cup (IF name.t = "Some" THEN {K_name} ELSE {})
           |-> IF k = K_id THEN id.v ELSE name.v]

\* HashMap::get
map_get(m, k) == IF k \in DOMAIN m THEN Some(m[k]) ELSE None

RECURSIVE collect_maps(_, _)
\* the `for conv in conversations` loop of get_conversations_with_ids
collect_maps(conversations, i) ==
    IF i > Len(conversations) THEN <<>>
    ELSE (IF conversations[i].t = "obj" THEN <<id_name_map(conversations[i])>> ELSE <<>>)
         \o collect_maps(conversations, i + 1)

\* the `conversations` array get_conversations_with_ids takes from the data
conversations_of(data) ==
    IF data.t = "arr" THEN data.v
    ELSE IF data.t = "obj"
         THEN LET a == and_then_as_array(or(get(data, K_conversations_with_ids),
                                            get(data, K_conversations)))
              IN  IF a.t = "Some" THEN a.v ELSE <<>>
    ELSE <<>>

\* get_conversations_with_ids on the parsed text
maps_of(data) ==
    IF data.t # "Ok" THEN data
    ELSE Ok([t |-> "vec", v |-> collect_maps(conversations_of(data.v), 1)])

\* AGiXTSDK::get_conversations_with_ids
get_conversations_with_ids_decode(verbose_flag, status, text) ==
    LET c == verbose_check(verbose_flag, status, text)
    IN  IF c.t # "Ok" THEN c ELSE maps_of(from_str(text))

RECURSIVE scan_maps(_, _, _)
\* the `for` loop of get_conversation_id_by_name, from index i on
scan_maps(maps, i, wanted) ==
    IF i > Len(maps) THEN None
    ELSE IF map_get(maps[i], K_name) = Some(wanted) THEN map_get(maps[i], K_id)
    ELSE scan_maps(maps, i + 1, wanted)

\* AGiXTSDK::get_conversation_id_by_name
find_conversation_id(conversations, wanted) ==
    IF conversations.t # "Ok" THEN conversations
    ELSE Ok(scan_maps(conversations.v.v, 1, wanted))

get_conversation_id_by_name_decode(verbose_flag, status, text, conversation_name) ==
    find_conversation_id(get_conversations_with_ids_decode(verbose_flag, status, text),
                         conversation_name)

\* AGiXTSDK::get_chains
array_or_empty(data) ==
    IF data.t # "Ok" THEN data
    ELSE IF data.v.t = "arr" THEN Ok(data.v)
    ELSE Ok(JArr(<<>>))

get_chains_decode(verbose_flag, status, text) ==
    LET c == verbose_check(verbose_flag, status, text)
    IN  IF c.t # "Ok" THEN c ELSE array_or_empty(from_str(text))

\* AGiXTSDK::get_chain_id_by_name
get_chain_id_by_name_decode(verbose_flag, status, text, chain_name) ==
    find_id(get_chains_decode(verbose_flag, status, text), chain_name)

\* Map::len of an object: the number of its distinct keys
len(j) == Cardinality({j.v[i][1] : i \in 1..Len(j.v)})

\* a get_chain that keeps unwrapping single-key objects
RECURSIVE chain_data_innermost(_)
chain_data_innermost(data) ==
    IF data.t # "Ok" THEN data
    ELSE IF data.v.t = "obj" /\ len(data.v) = 1
         THEN chain_data_innermost(Ok(get(data.v, data.v.v[1][1]).v))
    ELSE data

\* get_chain from `let data = serde_json::from_str(&text)?` on: the response
\* is {chain_name: {chain_data}}, the chain data is extracted
chain_data(data) ==
    IF data.t # "Ok" THEN data
    ELSE IF data.v.t = "obj" /\ len(data.v) = 1 THEN Ok(get(data.v, data.v.v[1][1]).v)
    ELSE data

\* AGiXTSDK::get_chain
get_chain_decode(verbose_flag, status, text) ==
    LET c == verbose_check(verbose_flag, status, text)
    IN  IF c.t # "Ok" THEN c ELSE chain_data(from_str(text))

\* AGiXTSDK::get_prompts
get_prompts_decode(verbose_flag, status, text) ==
    LET c == verbose_check(verbose_flag, status, text)
    IN  IF c.t # "Ok" THEN c ELSE from_str_struct(text, K_prompts, VecOfValues)

\* AGiXTSDK::get_prompt_id_by_name
get_prompt_id_by_name_decode(verbose_flag, status, text, prompt_name) ==
    find_id(get_prompts_decode(verbose_flag, status, text), prompt_name)

\* AGiXTSDK::user_exists
as_bool_or_false(json) ==
    IF json.t # "Ok" THEN json ELSE Ok(JBool(json.v.t = "bool" /\ json.v.v))

user_exists_decode(verbose_flag, status, text) ==
    LET c == verbose_check(verbose_flag, status, text)
    IN  IF c.t # "Ok" THEN c ELSE as_bool_or_false(from_str(text))

\* a speech call that hands back the body whatever the status
text_to_speech_unchecked(status, text) == Ok([t |-> "bytes", v |-> text])

\* AGiXTSDK::text_to_speech
text_to_speech_decode(status, text) ==
    IF ~is_success(status) THEN ApiError(status, text) ELSE Ok([t |-> "bytes", v |-> text])

\* ------------------------------------------------------- authentication
\* index of the first occurrence of pat in s, 0 when there is none
find(s, pat) ==
    IF contains(s, pat)
    THEN CHOOSE i \in 1..(Len(s) - Len(pat) + 1) :
             /\ SubSeq(s, i, i + Len(pat) - 1) = pat
             /\ \A k \in 1..(i - 1) : SubSeq(s, k, k + Len(pat) - 1) # pat
    ELSE 0

\* s.split(pat).nth(1): the piece between the first and the second match
split_nth_1(s, pat) ==
    IF find(s, pat) = 0 THEN None
    ELSE LET rest == SubSeq(s, find(s, pat) + Len(pat), Len(s))
         IN  Some(IF find(rest, pat) = 0 THEN rest ELSE SubSeq(rest, 1, find(rest, pat) - 1))

\* Option::unwrap_or_default for &str
unwrap_or_default(o) == IF o.t = "Some" THEN o.v ELSE <<>>

QTokenEq == <<"?", "t", "o", "k", "e", "n", "=">>
TokenEq == <<"t", "o", "k", "e", "n", "=">>

\* a login that returns the token without installing it
login_token_unwritten(status, json) ==
    IF json.t # "Ok" THEN Returns(json)
    ELSE IF is_success(status) /\ and_then_as_str(get(json.v, K_token)).t = "Some"
         THEN Returns(Ok(and_then_as_str(get(json.v, K_token))))
    ELSE Returns(Ok(None))

\* login from `let json = serde_json::from_str(&text)?` on: the result, and the
\* token handed to the header write under the lock
login_token(status, json) ==
    IF json.t # "Ok" THEN Returns(json)
    ELSE IF is_success(status) /\ and_then_as_str(get(json.v, K_token)).t = "Some"
         THEN [result |-> Ok(and_then_as_str(get(json.v, K_token))),
               write |-> and_then_as_str(get(json.v, K_token))]
    ELSE Returns(Ok(None))

\* AGiXTSDK::login, from the response on
login_decode(verbose_flag, status, text) ==
    LET c == verbose_check(verbose_flag, status, text)
    IN  IF c.t # "Ok" THEN Returns(c) ELSE login_token(status, from_str(text))

\* `detail.split("token=").nth(1).unwrap_or_default()` when detail holds "?token="
magic_link_token(detail) ==
    IF detail.t = "Some" /\ contains(detail.v, QTokenEq)
    THEN [result |-> Ok(Some(unwrap_or_default(split_nth_1(detail.v, TokenEq)))),
          write |-> Some(unwrap_or_default(split_nth_1(detail.v, TokenEq)))]
    ELSE Returns(Ok(None))

\* login_magic_link from `let json = serde_json::from_str(&text)?` on
magic_link_detail(json) ==
    IF json.t # "Ok" THEN Returns(json)
    ELSE magic_link_token(and_then_as_str(get(json.v, K_detail)))

\* AGiXTSDK::login_magic_link
login_magic_link_decode(verbose_flag, status, text) ==
    LET c == verbose_check(verbose_flag, status, text)
    IN  IF c.t # "Ok" THEN Returns(c) ELSE magic_link_detail(from_str(text))

\* register_user from `let json = serde_json::from_str(&text)?` on
register_token(status, json) ==
    IF json.t # "Ok" THEN Returns(json)
    ELSE IF is_success(status) /\ and_then_as_str(get(json.v, K_token)).t = "Some"
         THEN [result |-> json, write |-> and_then_as_str(get(json.v, K_token))]
    ELSE Returns(json)

\* AGiXTSDK::register_user
register_user_decode(verbose_flag, status, text) ==
    LET c == verbose_check(verbose_flag, status, text)
    IN  IF c.t # "Ok" THEN Returns(c) ELSE register_token(status, from_str(text))

\* the methods that attach a clone of the shared headers to their request
\* (`.headers(self.headers.lock().await.clone())`)
HeaderMethods ==
    {"get_agents", "get_agent_id_by_name", "add_agent", "delete_agent",
     "get_conversations", "get_conversations_with_ids", "get_conversation_id_by_name",
     "get_chains", "get_chain_id_by_name", "get_prompts", "get_prompt_id_by_name",
     "get_providers", "text_to_speech", "get_chain",
     "prompt_agent", "instruct", "chat",
     "submit_feedback", "positive_feedback", "negative_feedback"}

\* the methods that build their request without the shared headers
BareMethods == {"login", "login_magic_link", "register_user", "user_exists"}

\* the methods that may write the Authorization header
AuthMethods == {"login", "login_magic_link", "register_user"}

\* what method m makes of a response: its result and its header write
decode(m, verbose_flag, status, text, arg) ==
    CASE m = "get_agents" -> Returns(get_agents_decode(verbose_flag, status, text))
      [] m = "get_agent_id_by_name" ->
            Returns(get_agent_id_by_name_decode(verbose_flag, status, text, arg))
      [] m = "add_agent" -> Returns(add_agent_decode(verbose_flag, status, text))
      [] m = "delete_agent" -> Returns(delete_agent_decode(verbose_flag, status, text))
      [] m = "get_conversations" -> Returns(get_conversations_decode(verbose_flag, status, text))
      [] m = "get_conversations_with_ids" ->
            Returns(get_conversations_with_ids_decode(verbose_flag, status, text))
      [] m = "get_conversation_id_by_name" ->
            Returns(get_conversation_id_by_name_decode(verbose_flag, status, text, arg))
      [] m = "get_chains" -> Returns(get_chains_decode(verbose_flag, status, text))
      [] m = "get_chain_id_by_name" ->
            Returns(get_chain_id_by_name_decode(verbose_flag, status, text, arg))
      [] m = "get_prompts" -> Returns(get_prompts_decode(verbose_flag, status, text))
      [] m = "get_prompt_id_by_name" ->
            Returns(get_prompt_id_by_name_decode(verbose_flag, status, text, arg))
      [] m = "get_providers" -> Returns(get_providers_decode(verbose_flag, status, text))
      [] m = "user_exists" -> Returns(user_exists_decode(verbose_flag, status, text))
      [] m = "text_to_speech" -> Returns(text_to_speech_decode(status, text))
      [] m = "login" -> login_decode(verbose_flag, status, text)
      [] m = "login_magic_link" -> login_magic_link_decode(verbose_flag, status, text)
      [] m = "register_user" -> register_user_decode(verbose_flag, status, text)
      [] m = "get_chain" -> Returns(get_chain_decode(verbose_flag, status, text))
      [] m \in {"prompt_agent", "instruct", "chat"} ->
            Returns(prompt_agent_decode(verbose_flag, status, text))
      [] m \in {"submit_feedback", "positive_feedback", "negative_feedback"} ->
            Returns(submit_feedback_decode(verbose_flag, status, text))

\* ------------------------------------------------------------- the state
VARIABLES
    phase,      \* "args" before AGiXTSDK::new has run, "ready" after
    args,       \* the arguments of AGiXTSDK::new
    base_uri,   \* AGiXTSDK.base_uri
    verbose,    \* AGiXTSDK.verbose
    headers,    \* the HeaderMap inside AGiXTSDK.headers
    lock,       \* the task holding the Mutex around the HeaderMap, or None
    mutating,   \* TRUE while a HeaderMap::insert is rewriting the map
    task,       \* the call each concurrent task is in, and its position
    call,       \* the last call completed by the sequential caller
    granted,    \* the token of the last successful login still in force
    client,     \* AGiXTSDK.client, the transport handle
    sends,      \* the transport sends each task's running call has issued
    server      \* the agents the server holds, and the next id it assigns

vars == <<phase, args, base_uri, verbose, headers, lock, mutating, task, call, granted,
          client, sends, server>>

\* ------------------------------------------------------ inputs and server
h == <<"h">>
k == <<"k">>
x == <<"x">>
y == <<"y">>
\* tokens the server issues; the last one is not a legal header value
tok_a == <<"a">>
tok_b == <<"b">>
tok_bad == <<"a", "DEL">>

RECURSIVE Slashes(_)
Slashes(n) == IF n = 0 THEN <<>> ELSE <<"/">> \o Slashes(n - 1)

\* base URIs given to the constructor
BaseUriArgs == {None} \cup {Some(h \o Slashes(n)) : n \in 0..MaxSlashes}

KeyPieces == {Bearer_, bearer_, BEARER_, k}

RECURSIVE Concat(_)
Concat(pieces) == IF pieces = <<>> THEN <<>> ELSE Head(pieces) \o Concat(Tail(pieces))

\* credentials given to the constructor: up to MaxKeyParts pieces, then `k`
ApiKeyArgs ==
    {None} \cup {Some(Concat(ps) \o k) :
                    ps \in UNION {[1..n -> KeyPieces] : n \in 0..MaxKeyParts}}

StatusCodes == {200, 201, 302, 404}

\* a response; `served` is the listing the server serialised into it, if any
Response(status, text) == [t |-> "Response", status |-> status, text |-> text, served |-> None]
\* `.send().await?` or `.text().await?` failing with a reqwest::Error
TransportError == [t |-> "TransportError"]
Outcomes(bodies) == {TransportError} \cup {Response(s, b) : s \in StatusCodes, b \in bodies}

Entry(id, name) == JObj(<<<<K_id, JStr(id)>>, <<K_name, JStr(name)>>>>)
Detail(text) == JObj(<<<<K_detail, JStr(text)>>>>)
Token(tok) == JObj(<<<<K_token, JStr(tok)>>>>)
Envelope(key, value) == JObj(<<<<key, value>>>>)

NotJson == <<"oops">>
NotFound == to_string(Detail(<<"not found">>))
MagicLink == to_string(Detail(<<"u">> \o QTokenEq \o tok_a))
\* a verification URL with a further query parameter after the token
MagicLinkMore == to_string(Detail(<<"u">> \o QTokenEq \o tok_a \o <<"&">> \o k \o <<"=">> \o x))

\* a registration answer whose OTP URI is no otpauth:// URI
MalformedOtp == to_string(Envelope(K_otp_uri, JStr(<<"oops">>)))

\* the answer to get_chain: a chain whose data has a single field, under the
\* chain's name; and an object that repeats its one key
ChainData == Envelope(K_name, JStr(y))
ChainBody == to_string(Envelope(x, ChainData))
RepeatedKey == to_string(JObj(<<<<x, JStr(h)>>, <<x, JStr(k)>>>>))

\* the objects a server answers a creation with
Created == {Entry(<<"42">>, x), Entry(h, y)}

\* response bodies of the general specification
Bodies ==
    {NotJson, NotFound, MagicLink, MagicLinkMore, MalformedOtp, ChainBody, RepeatedKey}
    \cup {to_string(e) : e \in Created}
    \cup {to_string(j) : j \in {JObj(<<>>), JBool(TRUE), JArr(<<>>),
                                JArr(<<Entry(<<"1">>, x)>>)}}
    \cup {to_string(Token(tk)) : tk \in {tok_a, tok_b, tok_bad}}
    \cup {to_string(Envelope(K_message, JStr(<<"ok">>)))}
    \cup {to_string(Envelope(key, JArr(<<Entry(<<"1">>, x)>>))) :
            key \in {K_agents, K_conversations, K_providers, K_prompts}}
    \cup {to_string(Envelope(K_agents, JArr(<<>>)))}

Names == {x, y}
NoArg == <<>>

\* ------------------------------------------------------------ the machine
Tasks == 1..NumTasks
Idle == [pc |-> "idle"]
NoCall == [method |-> "none"]

\* a server that holds no agent yet
EmptyServer == [agents |-> <<>>, next |-> 1]

\* the state AGiXTSDK::new(b, key, v) returns
Constructed(b, key, v) ==
    /\ args = [base_uri |-> b, api_key |-> key, verbose |-> v]
    /\ base_uri = new(b, key, v).base_uri
    /\ headers = new(b, key, v).headers
    /\ verbose = new(b, key, v).verbose
    /\ phase = "ready"
    /\ lock = None
    /\ mutating = FALSE
    /\ task = [t \in Tasks |-> Idle]
    /\ call = NoCall
    /\ granted = None
    /\ client = new(b, key, v).client
    /\ sends = [t \in Tasks |-> 0]
    /\ server = EmptyServer

Init ==
    \E b \in BaseUriArgs, key \in {None, Some(Bearer_ \o k)}, v \in BOOLEAN :
        Constructed(b, key, v)

\* the `token` string of a parsed body
token_of(json) == IF json.t = "Ok" THEN and_then_as_str(get(json.v, K_token)) ELSE None

\* the token a response issues to login or register_user: 2xx and a `token` string
IssuedToken(outcome) ==
    IF outcome.t = "Response" /\ is_success(outcome.status)
    THEN token_of(from_str(outcome.text))
    ELSE None

\* the end of a call whose `.send()` and `.text()` ended in `outcome`: a
\* reqwest::Error is returned by `?`, a response is decoded by the method
Outcome(outcome, decoded) ==
    IF outcome.t = "TransportError" THEN Returns(RequestError) ELSE decoded

\* a client that forgets its credential whenever a call installs none
Written_or_cleared(out) ==
    IF out.write.t = "Some" THEN insert_if_valid(headers, out.write.v)
    ELSE insert(HeaderMap_new, CONTENT_TYPE, ApplicationJson)

\* the shared header map after the header write `out` asks for
Written(out) ==
    IF out.write.t = "Some" THEN insert_if_valid(headers, out.write.v) ELSE headers

\* the login token in force after method m changed the headers to `after`
Granted(m, issued, after) ==
    IF m = "login" /\ issued.t = "Some" THEN issued
    ELSE IF after # headers THEN None ELSE granted

\* a call that also switches the client's verbose output off
Invoke_quietening(m, arg, outcome, out) ==
    /\ call' = [method |-> m, arg |-> arg, outcome |-> outcome,
                sent |-> IF m \in HeaderMethods THEN Some(headers) ELSE None,
                result |-> out.result, before |-> headers, granted |-> granted]
    /\ headers' = Written(out)
    /\ granted' = Granted(m, IssuedToken(outcome), headers')
    /\ verbose' = FALSE
    /\ UNCHANGED <<phase, args, base_uri, lock, mutating, task, client, sends>>

\* one whole call of method m by the sequential caller: the response `outcome`
\* and what the method makes of it, `out`
Invoke(m, arg, outcome, out) ==
    /\ call' = [method |-> m, arg |-> arg, outcome |-> outcome,
                sent |-> IF m \in HeaderMethods THEN Some(headers) ELSE None,
                result |-> out.result, before |-> headers, granted |-> granted]
    /\ headers' = Written(out)
    /\ granted' = Granted(m, IssuedToken(outcome), headers')
    /\ UNCHANGED <<phase, args, base_uri, verbose, lock, mutating, task, client, sends>>

\* the caller holds a constructed client and is between two calls: it calls
\* method m, which is answered by one of `outcomes`
Call(m, arg, outcomes) ==
    /\ phase = "ready"
    /\ call = NoCall
    /\ \E o \in outcomes :
          Invoke(m, arg, o, Outcome(o, decode(m, verbose, o.status, o.text, arg)))
    /\ UNCHANGED server

get_agents(outcomes) == Call("get_agents", NoArg, outcomes)
get_agent_id_by_name(outcomes) == \E n \in Names : Call("get_agent_id_by_name", n, outcomes)
add_agent(outcomes) == Call("add_agent", NoArg, outcomes)
delete_agent(outcomes) == Call("delete_agent", NoArg, outcomes)
get_conversations(outcomes) == Call("get_conversations", NoArg, outcomes)
get_conversations_with_ids(outcomes) == Call("get_conversations_with_ids", NoArg, outcomes)
get_conversation_id_by_name(outcomes) ==
    \E n \in Names : Call("get_conversation_id_by_name", n, outcomes)
get_chains(outcomes) == Call("get_chains", NoArg, outcomes)
get_chain_id_by_name(outcomes) == \E n \in Names : Call("get_chain_id_by_name", n, outcomes)
get_prompts(outcomes) == Call("get_prompts", NoArg, outcomes)
get_prompt_id_by_name(outcomes) == \E n \in Names : Call("get_prompt_id_by_name", n, outcomes)
get_providers(outcomes) == Call("get_providers", NoArg, outcomes)
user_exists(outcomes) == Call("user_exists", NoArg, outcomes)
text_to_speech(outcomes) == Call("text_to_speech", NoArg, outcomes)
login(outcomes) == Call("login", NoArg, outcomes)
login_magic_link(outcomes) == Call("login_magic_link", NoArg, outcomes)
register_user(outcomes) == Call("register_user", NoArg, outcomes)
get_chain(outcomes) == Call("get_chain", NoArg, outcomes)

\* the sequential caller takes the result and goes on to its next call
Return ==
    /\ call # NoCall
    /\ call' = NoCall
    /\ UNCHANGED <<phase, args, base_uri, verbose, headers, lock, mutating, task, granted, client, sends, server>>

SeqOutcomes == Outcomes(Bodies)

Next ==
    \/ get_agents(SeqOutcomes)
    \/ get_agent_id_by_name(SeqOutcomes)
    \/ add_agent(SeqOutcomes)
    \/ delete_agent(SeqOutcomes)
    \/ get_conversations(SeqOutcomes)
    \/ get_conversations_with_ids(SeqOutcomes)
    \/ get_conversation_id_by_name(SeqOutcomes)
    \/ get_chains(SeqOutcomes)
    \/ get_chain_id_by_name(SeqOutcomes)
    \/ get_prompts(SeqOutcomes)
    \/ get_prompt_id_by_name(SeqOutcomes)
    \/ get_providers(SeqOutcomes)
    \/ user_exists(SeqOutcomes)
    \/ text_to_speech(SeqOutcomes)
    \/ login(SeqOutcomes)
    \/ login_magic_link(SeqOutcomes)
    \/ register_user(SeqOutcomes)
    \/ get_chain(SeqOutcomes)
    \/ Return

Spec == Init /\ [][Next]_vars

\* ------------------------------------------------- properties under Spec
Responded == call # NoCall /\ call.outcome.t = "Response"

\* C1 (as claimed): for every endpoint method and both verbosity flags, a
\* response with status >= 400 makes the call return Error::ApiError with that
\* status and the raw body text as message.
C1_FailureStatusIsApiError ==
    (Responded /\ call.outcome.status >= 400)
        => call.result = ApiError(call.outcome.status, call.outcome.text)

C3_BaseUriHasNoTrailingSlash ==
    phase = "ready" => (base_uri = <<>> \/ base_uri[Len(base_uri)] # "/")

\* C3 witness: a client built with several trailing slashes has completed a call
C3_Witness ==
    /\ args.base_uri = Some(h \o Slashes(MaxSlashes))
    /\ base_uri = h
    /\ call # NoCall

\* the envelope field each unwrapping method documents
EnvelopeField ==
    [get_agents |-> K_agents, get_conversations |-> K_conversations,
     get_providers |-> K_providers, get_prompts |-> K_prompts,
     delete_agent |-> K_message]

\* C7 (as claimed): for every method that unwraps an envelope field, a 2xx body
\* that is not JSON, or is a JSON object without the field, gives a JSON error
\* and never an empty list or another default.
C7_MissingEnvelopeIsJsonError ==
    (/\ Responded
     /\ call.method \in DOMAIN EnvelopeField
     /\ is_success(call.outcome.status)
     /\ \/ from_str(call.outcome.text).t # "Ok"
        \/ /\ from_str(call.outcome.text).v.t = "obj"
           /\ get(from_str(call.outcome.text).v, EnvelopeField[call.method]) = None)
        => call.result = JsonError

\* a response that issues a token to method m
IssuesToken(m, outcome) ==
    /\ outcome.t = "Response"
    /\ is_success(outcome.status)
    /\ from_str(outcome.text).t = "Ok"
    /\ IF m = "login_magic_link"
       THEN LET d == and_then_as_str(get(from_str(outcome.text).v, K_detail))
            IN  d.t = "Some" /\ contains(d.v, QTokenEq)
       ELSE and_then_as_str(get(from_str(outcome.text).v, K_token)).t = "Some"

\* C10 (as claimed): the header state changes only when login, login_magic_link
\* or register_user receives a 2xx response that contains an issued token.
C10_HeadersChangeOnlyOnIssuedToken ==
    (call # NoCall /\ headers # call.before)
        => (call.method \in AuthMethods /\ IssuesToken(call.method, call.outcome))

\* C11: text_to_speech returns the raw response bytes, unparsed, when the status
\* is 2xx, and Error::ApiError with the status and the body text for any other
\* status, whatever the verbosity flag.
C11_SpeechBytesOrApiError ==
    (Responded /\ call.method = "text_to_speech")
        => call.result = IF is_success(call.outcome.status)
                         THEN Ok([t |-> "bytes", v |-> call.outcome.text])
                         ELSE ApiError(call.outcome.status, call.outcome.text)

\* C11 witness: a quiet client's text_to_speech is answered 404 and returns the
\* API error
C11_Witness ==
    /\ Responded
    /\ call.method = "text_to_speech"
    /\ ~verbose
    /\ call.outcome.status = 404
    /\ call.result = ApiError(404, NotFound)

\* C12: once the client is constructed, no operation (login, registration and
\* failed calls included) changes the base URI, the transport handle or the
\* verbosity flag; only the header collection is ever modified.
C12_OnlyHeadersChange ==
    [][phase = "ready" => /\ base_uri' = base_uri
                          /\ client' = client
                          /\ verbose' = verbose]_vars

\* C12 witness: a login has replaced the Authorization header of a client whose
\* other fields are those the constructor stored
C12_Witness ==
    /\ call # NoCall
    /\ call.method = "login"
    /\ headers # call.before
    /\ base_uri = new(args.base_uri, args.api_key, args.verbose).base_uri
    /\ client = Client_new
    /\ verbose = args.verbose

\* ------------------------------------------- the constructor on its own
\* the constructor's arguments have been chosen, AGiXTSDK::new has not run
InitNew ==
    /\ phase = "args"
    /\ args \in [base_uri : BaseUriArgs \cup {Some(Slashes(n)) : n \in 0..MaxSlashes},
                 api_key : ApiKeyArgs, verbose : BOOLEAN]
    /\ base_uri = <<>>
    /\ headers = HeaderMap_new
    /\ verbose = FALSE
    /\ lock = None
    /\ mutating = FALSE
    /\ task = [t \in Tasks |-> Idle]
    /\ call = NoCall
    /\ granted = None
    /\ client = None
    /\ sends = [t \in Tasks |-> 0]
    /\ server = EmptyServer

\* AGiXTSDK::new runs on the chosen arguments
Construct ==
    /\ phase = "args"
    /\ phase' = "ready"
    /\ base_uri' = new(args.base_uri, args.api_key, args.verbose).base_uri
    /\ headers' = new(args.base_uri, args.api_key, args.verbose).headers
    /\ verbose' = new(args.base_uri, args.api_key, args.verbose).verbose
    /\ client' = new(args.base_uri, args.api_key, args.verbose).client
    /\ UNCHANGED <<args, lock, mutating, task, call, granted, sends, server>>

NextNew == Construct

SpecNew == InitNew /\ [][NextNew]_vars

to_ascii_lowercase(s) ==
    [i \in 1..Len(s) |->
        CASE s[i] = "B" -> "b" [] s[i] = "E" -> "e" [] s[i] = "A" -> "a"
          [] s[i] = "R" -> "r" [] OTHER -> s[i]]

\* C4 (as claimed): a credential that starts with `Bearer ` in any letter case
\* is stored with that leading prefix removed exactly once and every other
\* character unchanged.
C4_BearerPrefixStrippedOnce ==
    (/\ phase = "ready"
     /\ args.api_key.t = "Some"
     /\ Len(args.api_key.v) >= Len(bearer_)
     /\ to_ascii_lowercase(SubSeq(args.api_key.v, 1, Len(bearer_))) = bearer_)
        => auth_of(headers)
             = Some(SubSeq(args.api_key.v, Len(bearer_) + 1, Len(args.api_key.v)))

\* ------------------------------------------------- the lookups on their own
\* a listed resource: an optional string id and an optional string name
ListedEntries ==
    [id : {None, Some(<<"1">>), Some(<<"2">>)}, name : {Some(x), Some(y)}]
    \cup {[id |-> Some(<<"1">>), name |-> None]}

Listings == UNION {[1..n -> ListedEntries] : n \in 0..MaxList}

EntryJson(e) ==
    JObj((IF e.id.t = "Some" THEN <<<<K_id, JStr(e.id.v)>>>> ELSE <<>>)
         \o (IF e.name.t = "Some" THEN <<<<K_name, JStr(e.name.v)>>>> ELSE <<>>))

ListingJson(listing) == JArr([i \in 1..Len(listing) |-> EntryJson(listing[i])])

\* a listing as a bare array (shape <<>>) or under an envelope key
Bare == <<>>
ListingBody(shape, listing) ==
    IF shape = Bare THEN to_string(ListingJson(listing))
    ELSE to_string(Envelope(shape, ListingJson(listing)))

ListingShapes == {Bare, K_agents, K_conversations, K_conversations_with_ids, K_prompts}

\* a response whose body is `listing` serialised in `shape`
Serves(status, shape, listing) ==
    [t |-> "Response", status |-> status, text |-> ListingBody(shape, listing),
     served |-> Some([shape |-> shape, listing |-> listing])]

LookupOutcomes ==
    Outcomes({NotJson, to_string(JObj(<<>>))})
    \cup {Serves(st, sh, l) : st \in StatusCodes, sh \in ListingShapes, l \in Listings}

InitLookup == \E v \in BOOLEAN : Constructed(None, None, v)

NextLookup ==
    \/ get_agent_id_by_name(LookupOutcomes)
    \/ get_conversation_id_by_name(LookupOutcomes)
    \/ get_chain_id_by_name(LookupOutcomes)
    \/ get_prompt_id_by_name(LookupOutcomes)
    \/ Return

SpecLookup == InitLookup /\ [][NextLookup]_vars

\* the body shapes in which each helper's list endpoint delivers its listing
ShapesOf ==
    [get_agent_id_by_name |-> {K_agents},
     get_conversation_id_by_name |-> {Bare, K_conversations_with_ids, K_conversations},
     get_chain_id_by_name |-> {Bare},
     get_prompt_id_by_name |-> {K_prompts}]

\* the helper has been answered 2xx with `listing` in one of its shapes
Listed ==
    /\ Responded
    /\ call.method \in DOMAIN ShapesOf
    /\ is_success(call.outcome.status)
    /\ call.outcome.served.t = "Some"
    /\ call.outcome.served.v.shape \in ShapesOf[call.method]

\* the listing the helper was answered with
Listing == call.outcome.served.v.listing

Matches(listing, name) == {i \in 1..Len(listing) : listing[i].name = Some(name)}
Min(S) == CHOOSE i \in S : \A j \in S : i <= j

\* C5: when the listing holds no entry with the requested name (an empty
\* listing included), each lookup-by-name helper returns Ok(None), not an error.
C5_NoMatchIsNone ==
    (Listed /\ Matches(Listing, call.arg) = {}) => call.result = Ok(None)

\* C5 witnesses: an empty listing, and a listing of other names, give Ok(None)
C5_Witness ==
    /\ Listed
    /\ Listing = <<[id |-> Some(<<"1">>), name |-> Some(y)]>>
    /\ call.method = "get_conversation_id_by_name"
    /\ call.arg = x
    /\ call.result = Ok(None)

\* C6: when one or several listed resources have the requested name, the helper
\* returns the id of the first of them in listing order (None when that entry
\* carries no string id).
C6_FirstMatchWins ==
    (Listed /\ Matches(Listing, call.arg) # {})
        => call.result = Ok(Listing[Min(Matches(Listing, call.arg))].id)

\* C6 witness: two agents named x; the id of the first is returned
C6_Witness ==
    /\ Listed
    /\ Listing = <<[id |-> Some(<<"2">>), name |-> Some(x)],
                   [id |-> Some(<<"1">>), name |-> Some(x)]>>
    /\ call.method = "get_agent_id_by_name"
    /\ call.arg = x
    /\ call.result = Ok(Some(<<"2">>))

\* ------------------------------------------- concurrent calls on one client
\* the methods the concurrent tasks call
ConcMethods == {"get_agents", "login", "login_magic_link", "register_user"}

ConcStatusCodes == {200, 404}

ConcBodies ==
    {MagicLink, to_string(Envelope(K_agents, JArr(<<>>)))}
    \cup {to_string(Token(tk)) : tk \in {tok_a, tok_b, tok_bad}}

\* a lock that never makes a task wait
lock_always_ready(l) == TRUE

\* `self.headers.lock().await` is ready when no task holds the Mutex
lock_ready(l) == l = None

\* a guard that is leaked: the Mutex stays locked
drop_guard_leaked(l, t) == l

\* dropping a MutexGuard: the Mutex is free again if task t held it
drop_guard(l, t) == IF l = Some(t) THEN None ELSE l

InitConc == \E v \in BOOLEAN : Constructed(None, None, v)

\* task t calls method m: a header method first awaits the header lock, the
\* others build their request without the shared headers and send it
Start(t, methods) ==
    /\ task[t].pc = "idle"
    /\ call = NoCall
    /\ \E m \in methods :
          /\ task' = [task EXCEPT ![t] =
                         IF m \in HeaderMethods THEN [pc |-> "lock", method |-> m]
                         ELSE [pc |-> "send", method |-> m, sent |-> None, torn |-> FALSE]]
          /\ sends' = [sends EXCEPT ![t] = IF m \in HeaderMethods THEN @ ELSE @ + 1]
    /\ UNCHANGED <<phase, args, base_uri, verbose, headers, lock, mutating, call, granted,
                   client, server>>

Begin(t) == Start(t, ConcMethods)

\* `.headers(self.headers.lock().await.clone())`: the lock is acquired, the map
\* cloned and the request sent; the guard is a temporary of the `let response`
\* statement, so it lives until `.send().await?` has finished
Snapshot(t) ==
    /\ task[t].pc = "lock"
    /\ lock_ready(lock)
    /\ lock' = Some(t)
    /\ task' = [task EXCEPT ![t] = [pc |-> "send", method |-> task[t].method,
                                    sent |-> Some(headers), torn |-> mutating]]
    /\ sends' = [sends EXCEPT ![t] = @ + 1]
    /\ UNCHANGED <<phase, args, base_uri, verbose, headers, mutating, call, granted,
                   client, server>>

\* `.send().await?` yields the response: the statement ends, its temporaries
\* (the guard of a header method) are dropped
Receive(t) ==
    /\ task[t].pc = "send"
    /\ \E status \in ConcStatusCodes :
          task' = [task EXCEPT ![t] = [pc |-> "text", method |-> task[t].method,
                                       status |-> status]]
    /\ lock' = drop_guard(lock, t)
    /\ UNCHANGED <<phase, args, base_uri, verbose, headers, mutating, call, granted, client, sends, server>>

\* a client that answers a failed send by building and sending the request again
SendError_retrying(t) ==
    /\ task[t].pc = "send"
    /\ sends[t] < 3
    /\ sends' = [sends EXCEPT ![t] = @ + 1]
    /\ lock' = drop_guard(lock, t)
    /\ UNCHANGED <<phase, args, base_uri, verbose, headers, mutating, task, call, granted,
                   client, server>>

\* `.send().await?` fails: the method returns Error::RequestError
SendError(t) ==
    /\ task[t].pc = "send"
    /\ task' = [task EXCEPT ![t] = [pc |-> "done", method |-> task[t].method,
                                    result |-> RequestError]]
    /\ lock' = drop_guard(lock, t)
    /\ UNCHANGED <<phase, args, base_uri, verbose, headers, mutating, call, granted, client, sends, server>>

\* where a method stands once it has made `out` of the body: at the lock of
\* its header write, or at its return
Resume(m, out) ==
    IF out.write.t = "Some"
    THEN [pc |-> "write_lock", method |-> m, token |-> out.write.v, result |-> out.result]
    ELSE [pc |-> "done", method |-> m, result |-> out.result]

\* `response.text().await?` yields the body; the method runs on to its return,
\* or to the `self.headers.lock().await` of an authentication method
Read(t, bodies, arg) ==
    /\ task[t].pc = "text"
    /\ \E text \in bodies :
          task' = [task EXCEPT ![t] =
                      Resume(task[t].method,
                             decode(task[t].method, verbose, task[t].status, text, arg))]
    /\ UNCHANGED <<phase, args, base_uri, verbose, headers, lock, mutating, call, granted, client, sends, server>>

ReadText(t) == Read(t, ConcBodies, NoArg)

\* `response.text().await?` fails
TextError(t) ==
    /\ task[t].pc = "text"
    /\ task' = [task EXCEPT ![t] = [pc |-> "done", method |-> task[t].method,
                                    result |-> RequestError]]
    /\ UNCHANGED <<phase, args, base_uri, verbose, headers, lock, mutating, call, granted, client, sends, server>>

\* `let mut headers = self.headers.lock().await;`
LockForWrite(t) ==
    /\ task[t].pc = "write_lock"
    /\ lock_ready(lock)
    /\ lock' = Some(t)
    /\ task' = [task EXCEPT ![t].pc = "locked"]
    /\ UNCHANGED <<phase, args, base_uri, verbose, headers, mutating, call, granted, client, sends, server>>

\* `headers.insert(AUTHORIZATION, value)` starts rewriting the map
InsertHeader(t) ==
    /\ task[t].pc = "locked"
    /\ HeaderValue_from_str_ok(task[t].token)
    /\ mutating' = TRUE
    /\ task' = [task EXCEPT ![t].pc = "inserting"]
    /\ UNCHANGED <<phase, args, base_uri, verbose, headers, lock, call, granted, client, sends, server>>

\* the insert is complete (or was skipped for an illegal header value); the
\* method returns and the guard goes out of scope
FinishWrite(t) ==
    /\ \/ /\ task[t].pc = "inserting"
          /\ headers' = insert(headers, AUTHORIZATION, task[t].token)
          /\ mutating' = FALSE
       \/ /\ task[t].pc = "locked"
          /\ ~HeaderValue_from_str_ok(task[t].token)
          /\ UNCHANGED <<headers, mutating>>
    /\ lock' = drop_guard(lock, t)
    /\ task' = [task EXCEPT ![t] = [pc |-> "done", method |-> task[t].method,
                                    result |-> task[t].result]]
    /\ UNCHANGED <<phase, args, base_uri, verbose, call, granted, client, sends, server>>

\* the caller of task t takes the result
Finish(t) ==
    /\ task[t].pc = "done"
    /\ task' = [task EXCEPT ![t] = Idle]
    /\ sends' = [sends EXCEPT ![t] = 0]
    /\ UNCHANGED <<phase, args, base_uri, verbose, headers, lock, mutating, call, granted,
                   client, server>>

NextConc ==
    \E t \in Tasks :
        \/ Begin(t)
        \/ Snapshot(t)
        \/ Receive(t)
        \/ SendError(t)
        \/ ReadText(t)
        \/ TextError(t)
        \/ LockForWrite(t)
        \/ InsertHeader(t)
        \/ FinishWrite(t)
        \/ Finish(t)

SpecConc == InitConc /\ [][NextConc]_vars

\* the tasks that hold a MutexGuard
Holders ==
    {t \in Tasks : \/ task[t].pc \in {"locked", "inserting"}
                   \/ task[t].pc = "send" /\ task[t].sent.t = "Some"}

\* C8 (as claimed): no call holds the header lock while it is suspended on the
\* network, so a login's header write never waits for an in-flight request.
C8_NoLockWhileSending ==
    \A t \in Tasks : task[t].pc = "send" => lock # Some(t)

\* C9: at most one task holds the header lock at a time; a header write never
\* overlaps another write or a snapshot read, so every snapshot a request
\* carries is a complete header state.
C9_OneHolderAndWholeSnapshots ==
    /\ Cardinality(Holders) <= 1
    /\ \A t \in Holders : lock = Some(t)
    /\ mutating => \E t \in Tasks : task[t].pc = "inserting"
    /\ \A t \in Tasks : task[t].pc = "send" => ~task[t].torn

\* C9 witness: a login is rewriting the map while a snapshot reader and another
\* writer are kept waiting for the lock
C9_Witness ==
    /\ task[1].pc = "inserting"
    /\ task[2].pc \in {"lock", "write_lock"}
    /\ mutating


\* C15: a client constructed without a base URI stores http://localhost:7437
\* as its base URI, and a client constructed with verbose = false has its
\* verbosity flag off.
C15_DefaultBaseUriAndQuiet ==
    phase = "ready"
        => /\ args.base_uri = None => base_uri = <<"http://localhost:7437">>
           /\ ~args.verbose => ~verbose

\* C15 witness: AGiXTSDK::new(None, None, false) has run
C15_Witness ==
    /\ phase = "ready"
    /\ args = [base_uri |-> None, api_key |-> None, verbose |-> FALSE]
    /\ base_uri = <<"http://localhost:7437">>
    /\ ~verbose

\* the `token` string of a response body
TokenOf(json) == IF json.t = "Ok" THEN and_then_as_str(get(json.v, K_token)) ELSE None

\* what login is claimed to return for a response with this status and token
LoginOutcome(status, token) ==
    IF is_success(status) /\ token.t = "Some" THEN Ok(token) ELSE Ok(None)

\* C16 (as claimed): login returns Ok(Some(token)) for a 2xx response with a
\* `token` string and Ok(None), never an error, for every response that
\* grants no token, whichever the verbosity setting.
C16_LoginFailureIsNone ==
    (Responded /\ call.method = "login")
        => call.result = LoginOutcome(call.outcome.status,
                                      TokenOf(from_str(call.outcome.text)))

\* C17: add_agent returns the JSON object of a 2xx body unchanged, no envelope
\* field unwrapped: for the body {"id": I, "name": N} the returned value has
\* id I and name N.
C17_AddAgentReturnsBody ==
    (/\ Responded
     /\ call.method = "add_agent"
     /\ is_success(call.outcome.status))
        => \A e \in Created :
              call.outcome.text = to_string(e)
                  => /\ call.result = Ok(e)
                     /\ get(call.result.v, K_id) = get(e, K_id)
                     /\ get(call.result.v, K_name) = get(e, K_name)
                     /\ get(call.result.v, K_id) \in {Some(JStr(<<"42">>)), Some(JStr(h))}

\* C17 witness: add_agent answered 200 {"id":"42","name":"x"} on a verbose
\* client returned that object
C17_Witness ==
    /\ Responded
    /\ call.method = "add_agent"
    /\ verbose
    /\ call.outcome.status = 200
    /\ call.outcome.text = to_string(Entry(<<"42">>, x))
    /\ get(call.result.v, K_id) = Some(JStr(<<"42">>))
    /\ get(call.result.v, K_name) = Some(JStr(x))

\* ---------------------------------------------------------------------------
\* The client against a server that keeps the agents it is asked to create.
\* ---------------------------------------------------------------------------

\* the identifier the server gives its n-th agent
IdOf(n) == <<ToString(n)>>

\* the body of GET /v1/agent: {"agents": [{"id": ..., "name": ...}, ...]}
AgentsListing(agents) ==
    to_string(Envelope(K_agents,
                       JArr([i \in 1..Len(agents) |-> Entry(agents[i].id, agents[i].name)])))

Deleted == to_string(Envelope(K_message, JStr(<<"deleted">>)))

\* the agents left when the one with this id is deleted
RECURSIVE Remove(_, _)
Remove(agents, id) ==
    IF agents = <<>> THEN <<>>
    ELSE IF Head(agents).id = id THEN Remove(Tail(agents), id)
    ELSE <<Head(agents)>> \o Remove(Tail(agents), id)

IdsOf(agents) == {agents[i].id : i \in 1..Len(agents)}
NamesOf(agents) == {agents[i].name : i \in 1..Len(agents)}
\* the names of the agents with this id
NamesWithId(agents, id) == {agents[i].name : i \in {j \in 1..Len(agents) : agents[j].id = id}}
\* the ids of the agents with this name
IdsWithName(agents, name) == {agents[i].id : i \in {j \in 1..Len(agents) : agents[j].name = name}}

\* one whole call of method m that the server answers with `o`, its state
\* becoming `after`
Serve(m, arg, o, after) ==
    /\ phase = "ready"
    /\ call = NoCall
    /\ server' = after
    /\ Invoke(m, arg, o, Outcome(o, decode(m, verbose, o.status, o.text, arg)))

\* add_agent(name): the server creates the agent under a new id, lists it and
\* answers with the created object
CreateAgent ==
    \E name \in Names :
        /\ Len(server.agents) < MaxAgents
        /\ server.next <= MaxIds
        /\ Serve("add_agent", name,
                 Response(200, to_string(Entry(IdOf(server.next), name))),
                 [agents |-> Append(server.agents, [id |-> IdOf(server.next), name |-> name]),
                  next |-> server.next + 1])

\* get_agent_id_by_name(name): the server answers with its listing
LookupAgent ==
    \E name \in Names :
        Serve("get_agent_id_by_name", name, Response(200, AgentsListing(server.agents)), server)

\* delete_agent(id): the server removes the agent, or knows no such agent
DeleteAgent ==
    \E n \in 1..MaxIds :
        Serve("delete_agent", IdOf(n),
              IF IdOf(n) \in IdsOf(server.agents) THEN Response(200, Deleted)
              ELSE Response(404, NotFound),
              [server EXCEPT !.agents = Remove(@, IdOf(n))])

InitServer == \E v \in BOOLEAN : Constructed(None, None, v)

NextServer ==
    \/ CreateAgent
    \/ LookupAgent
    \/ DeleteAgent
    \/ Return

SpecServer == InitServer /\ [][NextServer]_vars

\* C18: against a server that lists each agent it creates, a successful
\* add_agent(name) puts the name in the listing, creating and deleting agents
\* of other names leaves it there, and while it is there
\* get_agent_id_by_name(name) succeeds with the id of a listed agent of that
\* name, an id that delete_agent accepts.
C18_CreatedAgentIsFound ==
    [][/\ (call'.method = "add_agent" /\ call'.result.t = "Ok")
           => call'.arg \in NamesOf(server'.agents)
       /\ \A name \in NamesOf(server.agents) :
             (call'.method # "delete_agent"
                  \/ NamesWithId(server.agents, call'.arg) # {name})
                 => name \in NamesOf(server'.agents)
       /\ (call'.method = "get_agent_id_by_name" /\ call'.arg \in NamesOf(server.agents))
           => /\ call'.result.t = "Ok"
              /\ call'.result.v.t = "Some"
              /\ call'.result.v.v \in IdsWithName(server'.agents, call'.arg)
       /\ (call'.method = "delete_agent" /\ call'.arg \in IdsOf(server.agents))
           => /\ call'.result.t = "Ok"
              /\ call'.arg \notin IdsOf(server'.agents)
      ]_vars

\* C18 witness: x and y were created and x deleted again; the lookup of y then
\* returned the id the server gave y
C18_Witness ==
    /\ server = [agents |-> <<[id |-> IdOf(2), name |-> y]>>, next |-> 3]
    /\ call # NoCall
    /\ call.method = "get_agent_id_by_name"
    /\ call.arg = y
    /\ call.result = Ok(Some(IdOf(2)))

\* Error::AuthError(String)
AuthError(message) == [t |-> "AuthError", message |-> message]

\* the `otp_uri` string of a response body
OtpUriOf(json) == IF json.t = "Ok" THEN and_then_as_str(get(json.v, K_otp_uri)) ELSE None

\* whether a response hands out an OTP URI that is not an otpauth:// URI
MalformedOtpUri(otp_uri) ==
    otp_uri.t = "Some" /\ (otp_uri.v = <<>> \/ otp_uri.v[1] # "otpauth://")

\* C19 (as claimed): a registration whose response carries a malformed OTP URI
\* is reported as Error::AuthError by local validation, and nothing is written
\* to the client.
C19_MalformedOtpIsAuthError ==
    (/\ Responded
     /\ call.method = "register_user"
     /\ is_success(call.outcome.status)
     /\ MalformedOtpUri(OtpUriOf(from_str(call.outcome.text))))
        => \E message \in {call.outcome.text, OtpUriOf(from_str(call.outcome.text)).v} :
              call.result = AuthError(message)

\* C20: on a verbose client every JSON endpoint method answered with a
\* non-2xx status returns Error::ApiError with that status and the raw body at
\* once: the body is not parsed (a body that is no JSON gives no JSON error),
\* no envelope is unwrapped, and login, login_magic_link and register_user
\* leave the headers as they were.
C20_VerboseFailureIsApiError ==
    (/\ Responded
     /\ verbose
     /\ call.method # "text_to_speech"
     /\ ~is_success(call.outcome.status))
        => /\ call.result = ApiError(call.outcome.status, call.outcome.text)
           /\ headers = call.before

\* C20 witness: a verbose login_magic_link answered 404 with a body that holds
\* a token URL returned the API error and installed nothing
C20_Witness ==
    /\ Responded
    /\ verbose
    /\ call.method = "login_magic_link"
    /\ call.outcome.status = 404
    /\ call.outcome.text = MagicLink
    /\ call.result = ApiError(404, MagicLink)
    /\ headers = call.before

\* the first index of s from `from` on that holds a query delimiter, Len(s) + 1
\* when there is none
RECURSIVE ParameterEnd(_, _)
ParameterEnd(s, from) ==
    IF from > Len(s) \/ s[from] \in {"&", "#"} THEN from ELSE ParameterEnd(s, from + 1)

\* the value of the `token` query parameter of a URL that holds "?token="
TokenParameter(url) ==
    LET start == find(url, QTokenEq) + Len(QTokenEq)
    IN  SubSeq(url, start, ParameterEnd(url, start) - 1)

\* the `detail` string of a response body
DetailOf(json) == IF json.t = "Ok" THEN and_then_as_str(get(json.v, K_detail)) ELSE None

\* whether a call answered with `detail` returned and installed exactly the
\* token parameter of the URL in it
ReturnsTokenParameter(detail) ==
    (detail.t = "Some" /\ contains(detail.v, QTokenEq))
        => /\ call.result = Ok(Some(TokenParameter(detail.v)))
           /\ auth_of(headers) = Some(TokenParameter(detail.v))

\* C14 (as claimed): for every login_magic_link response whose `detail` is a
\* URL containing "?token=", the token returned and stored as the Authorization
\* header is exactly the value of the URL's `token` query parameter, without
\* any further `&key=value` parameter after it.
C14_TokenIsQueryParameter ==
    (/\ Responded
     /\ call.method = "login_magic_link"
     /\ call.result.t = "Ok")
        => ReturnsTokenParameter(DetailOf(from_str(call.outcome.text)))

\* ---------------------------------------------------------------------------
\* One caller, every method stepped through its awaits.
\* ---------------------------------------------------------------------------

\* no other call of the client is in progress
Alone(t) == \A u \in Tasks \ {t} : task[u].pc = "idle"

SendMethods == HeaderMethods \cup BareMethods

SendBodies ==
    Bodies \cup {to_string(Envelope(K_response, JStr(x))),
                 to_string(Envelope(K_agents, JArr(<<Entry(h, x)>>)))}

InitSend == InitConc

NextSend ==
    \E t \in Tasks :
        /\ Alone(t)
        /\ \/ Start(t, SendMethods)
           \/ Snapshot(t)
           \/ Receive(t)
           \/ SendError(t)
           \/ \E arg \in Names : Read(t, SendBodies, arg)
           \/ TextError(t)
           \/ LockForWrite(t)
           \/ InsertHeader(t)
           \/ FinishWrite(t)
           \/ Finish(t)

SpecSend == InitSend /\ [][NextSend]_vars

\* C13: no method retries. From the moment its request is built until the call
\* returns, a method (lookup helper, chat, instruct and feedback wrappers
\* included) has handed exactly one request to the transport; before that it
\* has handed none, and a call that ended in an error has sent once and no more.
C13_ExactlyOneSend ==
    \A t \in Tasks :
        sends[t] = IF task[t].pc \in {"idle", "lock"} THEN 0 ELSE 1

\* C13 witness: a lookup helper whose send failed has returned the transport
\* error after its single send
C13_Witness ==
    \E t \in Tasks :
        /\ task[t].pc = "done"
        /\ task[t].method \in {"get_agent_id_by_name", "chat", "positive_feedback"}
        /\ task[t].result = RequestError
        /\ sends[t] = 1

\* ---------------------------------------------------------------------------
\* The lookup helpers stepped against a server whose listing changes.
\* ---------------------------------------------------------------------------

RelistMethods == {"get_agent_id_by_name", "get_chain_id_by_name"}

\* the body of the list request of helper m: GET /v1/agent answers with the
\* `agents` envelope, GET /v1/chains with the bare array
ListBody(m, listed) ==
    IF m = "get_agent_id_by_name" THEN AgentsListing(listed)
    ELSE to_string(JArr([i \in 1..Len(listed) |-> Entry(listed[i].id, listed[i].name)]))

\* the caller calls helper m for `name`; the helper calls its list method,
\* which awaits the header lock
LookupCall(t) ==
    /\ Alone(t)
    /\ task[t].pc = "idle"
    /\ call = NoCall
    /\ \E m \in RelistMethods, name \in Names :
          task' = [task EXCEPT ![t] = [pc |-> "lock", method |-> m, name |-> name]]
    /\ UNCHANGED <<phase, args, base_uri, verbose, headers, lock, mutating, call, granted,
                   client, sends, server>>

\* the list method clones the headers under the lock and sends its request
LookupSend(t) ==
    /\ task[t].pc = "lock"
    /\ lock_ready(lock)
    /\ lock' = Some(t)
    /\ task' = [task EXCEPT ![t] = [pc |-> "send", method |-> task[t].method,
                                    name |-> task[t].name]]
    /\ sends' = [sends EXCEPT ![t] = @ + 1]
    /\ UNCHANGED <<phase, args, base_uri, verbose, headers, mutating, call, granted,
                   client, server>>

\* the server answers the list request with what it lists at that moment, or
\* refuses it
ListServed(t) ==
    /\ task[t].pc = "send"
    /\ \E status \in {200, 404} :
          task' = [task EXCEPT ![t] =
                      [pc |-> "text", method |-> task[t].method, name |-> task[t].name,
                       status |-> status, listing |-> server.agents,
                       text |-> IF status = 200 THEN ListBody(task[t].method, server.agents)
                                ELSE NotFound]]
    /\ lock' = drop_guard(lock, t)
    /\ UNCHANGED <<phase, args, base_uri, verbose, headers, mutating, call, granted,
                   client, sends, server>>

\* a helper that answers from the listing it saw when the client was new
LookupReturn_cached(t) ==
    /\ task[t].pc = "text"
    /\ task' = [task EXCEPT ![t] =
                   [pc |-> "done", method |-> task[t].method, name |-> task[t].name,
                    status |-> task[t].status, listing |-> task[t].listing,
                    result |-> decode(task[t].method, verbose, task[t].status,
                                      ListBody(task[t].method, EmptyServer.agents),
                                      task[t].name).result]]
    /\ UNCHANGED <<phase, args, base_uri, verbose, headers, lock, mutating, call, granted,
                   client, sends, server>>

\* the list method reads and decodes the body, the helper scans the list and
\* returns
LookupReturn(t) ==
    /\ task[t].pc = "text"
    /\ task' = [task EXCEPT ![t] =
                   [pc |-> "done", method |-> task[t].method, name |-> task[t].name,
                    status |-> task[t].status, listing |-> task[t].listing,
                    result |-> decode(task[t].method, verbose, task[t].status,
                                      task[t].text, task[t].name).result]]
    /\ UNCHANGED <<phase, args, base_uri, verbose, headers, lock, mutating, call, granted,
                   client, sends, server>>

\* another client of the server creates or deletes a resource
ServerChange ==
    /\ \/ \E name \in Names :
             /\ Len(server.agents) < MaxAgents
             /\ server.next <= MaxIds
             /\ server' = [agents |-> Append(server.agents,
                                             [id |-> IdOf(server.next), name |-> name]),
                           next |-> server.next + 1]
       \/ \E id \in IdsOf(server.agents) :
             server' = [server EXCEPT !.agents = Remove(@, id)]
    /\ UNCHANGED <<phase, args, base_uri, verbose, headers, lock, mutating, task, call,
                   granted, client, sends>>

InitRelist == InitServer

NextRelist ==
    \/ \E t \in Tasks : \/ LookupCall(t)
                        \/ LookupSend(t)
                        \/ ListServed(t)
                        \/ LookupReturn(t)
                        \/ Finish(t)
    \/ ServerChange

SpecRelist == InitRelist /\ [][NextRelist]_vars

\* the id of the first listed resource with this name
FirstWithName(listed, name) ==
    IF name \in NamesOf(listed)
    THEN Some(listed[Min({i \in 1..Len(listed) : listed[i].name = name})].id)
    ELSE None

\* C21: a lookup-by-name call issues exactly one list request, and what it
\* returns is determined by the listing served to that request alone: not by
\* what an earlier lookup saw, and not by what the server lists before or
\* after. k lookups are therefore k list requests, and a resource created or
\* deleted between two lookups is reflected by the second.
C21_OneListRequestPerLookup ==
    \A t \in Tasks :
        /\ sends[t] = IF task[t].pc \in {"idle", "lock"} THEN 0 ELSE 1
        /\ (task[t].pc = "done" /\ task[t].status = 200)
              => task[t].result = Ok(FirstWithName(task[t].listing, task[t].name))

\* C21 witness: the server's first agent is gone and its second, x, was listed
\* to this lookup of x, which returned its id although the server has since
\* deleted it
C21_Witness ==
    \E t \in Tasks :
        /\ task[t].pc = "done"
        /\ task[t].name = x
        /\ task[t].listing = <<[id |-> IdOf(2), name |-> x]>>
        /\ task[t].result = Ok(Some(IdOf(2)))
        /\ sends[t] = 1
        /\ server.agents = <<>>

LookupHelpers ==
    {"get_agent_id_by_name", "get_conversation_id_by_name", "get_chain_id_by_name",
     "get_prompt_id_by_name"}

\* C22 (as claimed): a lookup-by-name helper returns Ok(None) only when its
\* list request succeeded: the transport answered, the status was 2xx and the
\* body was a JSON array or object. A failed listing gives an error, with
\* either verbosity setting.
C22_AbsentOnlyAfterListing ==
    (/\ call # NoCall
     /\ call.method \in LookupHelpers
     /\ call.result = Ok(None))
        => /\ call.outcome.t = "Response"
           /\ is_success(call.outcome.status)
           /\ from_str(call.outcome.text).t = "Ok"
           /\ from_str(call.outcome.text).v.t \in {"arr", "obj"}

\* the keys of a JSON object
KeysOf(j) == {j.v[i][1] : i \in 1..Len(j.v)}

\* what get_chain is claimed to make of a parsed body: the value of the key of
\* a single-key object, any other value as it is
ChainOf(j) ==
    IF j.t = "obj" /\ \E key \in KeysOf(j) : KeysOf(j) = {key}
    THEN get(j, CHOOSE key \in KeysOf(j) : TRUE).v
    ELSE j

\* C23: get_chain returns the value of the one key of a body that is a JSON
\* object with exactly one key and every other body (object with no or several
\* keys, array, scalar) unchanged; it unwraps once, so chain data that itself
\* has exactly one field comes back as the whole object.
C23_ChainDataUnwrappedOnce ==
    (/\ Responded
     /\ call.method = "get_chain"
     /\ call.result.t = "Ok")
        => /\ call.result = Ok(ChainOf(from_str(call.outcome.text).v))
           /\ call.outcome.text = ChainBody => call.result = Ok(ChainData)

\* C23 witness: {"x":{"name":"y"}} came back as {"name":"y"}
C23_Witness ==
    /\ Responded
    /\ call.method = "get_chain"
    /\ call.outcome.status = 200
    /\ call.outcome.text = ChainBody
    /\ call.result = Ok(Envelope(K_name, JStr(y)))

\* C24 (as claimed): user_exists returns Ok(true) exactly when the response has
\* a 2xx status and its body is the JSON literal true, and a response with a
\* non-2xx status is reported as an error, never as Ok(false).
C24_UserExistsOrError ==
    (Responded /\ call.method = "user_exists")
        => /\ call.result = Ok(JBool(TRUE))
                <=> (/\ is_success(call.outcome.status)
                     /\ from_str(call.outcome.text) = Ok(JBool(TRUE)))
           /\ ~is_success(call.outcome.status) => call.result.t # "Ok"

\* the token a finished call has handed to its caller
HandedToken ==
    IF call.method \in {"login", "login_magic_link"}
    THEN (IF call.result.t = "Ok" THEN call.result.v ELSE None)
    ELSE IF call.method = "register_user" /\ call.result.t = "Ok"
              /\ is_success(call.outcome.status)
    THEN and_then_as_str(get(call.result.v, K_token))
    ELSE None

\* C25 (as claimed): whenever login, login_magic_link or register_user hands a
\* token to the caller, the client's Authorization header equals that token at
\* that moment; a token that is no legal header value is never handed back
\* with the headers left as they were.
C25_HandedTokenIsInstalled ==
    (Responded /\ HandedToken.t = "Some") => auth_of(headers) = HandedToken

\* ---------------------------------------------------------------------------
\* The concurrent tasks under a fair scheduler.
\* ---------------------------------------------------------------------------

\* a method that reads the headers under the lock and one that writes them
FairMethods == {"get_agents", "login"}

\* a listing, a token that is installed and one that is not
FairBodies ==
    {to_string(Envelope(K_agents, JArr(<<>>))), to_string(Token(tok_a)),
     to_string(Token(tok_bad))}

\* every request is answered or fails; a runnable task is polled; the waiters
\* of tokio::sync::Mutex are served first-in first-out, so no waiter is passed
\* over forever
Fair(t) ==
    /\ WF_vars(SendError(t) \/ Receive(t) \/ TextError(t) \/ Read(t, FairBodies, NoArg)
                   \/ InsertHeader(t) \/ FinishWrite(t))
    /\ SF_vars(Snapshot(t) \/ LockForWrite(t))

InitFair == InitConc

NextFair ==
    \E t \in Tasks :
        \/ Start(t, FairMethods)
        \/ Snapshot(t)
        \/ Receive(t)
        \/ SendError(t)
        \/ Read(t, FairBodies, NoArg)
        \/ TextError(t)
        \/ LockForWrite(t)
        \/ InsertHeader(t)
        \/ FinishWrite(t)
        \/ Finish(t)

SpecFair == InitFair /\ [][NextFair]_vars /\ \A t \in Tasks : Fair(t)

\* C26: no call awaits the header lock while it holds the lock itself, and
\* under a fair scheduler and a transport that answers or fails every request
\* every call of every task returns.
C26_EveryCallReturns ==
    /\ [](\A t \in Tasks : task[t].pc \in {"lock", "write_lock"} => lock # Some(t))
    /\ \A t \in Tasks : (task[t].pc # "idle") ~> (task[t].pc = "done")

\* C26 witness: a login has returned with its token installed while the
\* request of another task is in flight and holds the lock
C26_Witness ==
    /\ task[1].pc = "done"
    /\ task[1].method = "login"
    /\ task[1].result.t = "Ok"
    /\ task[1].result.v.t = "Some"
    /\ auth_of(headers) = task[1].result.v
    /\ task[2].pc = "send"
    /\ lock = Some(2)

\* ---------------------------------------------------------------------------
\* The concurrent tasks, with callers that abandon their calls.
\* ---------------------------------------------------------------------------

\* the awaits of a method: the points where its future can be dropped
SuspensionPoints == {"lock", "send", "text", "write_lock"}

\* a dropped future that leaves its MutexGuard behind
Abandon_holding(t) ==
    /\ task[t].pc \in SuspensionPoints
    /\ task' = [task EXCEPT ![t] = [pc |-> "abandoned", method |-> task[t].method,
                                    at |-> task[t].pc, held |-> lock = Some(t)]]
    /\ sends' = [sends EXCEPT ![t] = 0]
    /\ UNCHANGED <<phase, args, base_uri, verbose, headers, lock, mutating, call, granted,
                   client, server>>

\* the caller drops the future of its pending call: the locals of the method
\* are dropped with it, a MutexGuard among them releases the lock
Abandon(t) ==
    /\ task[t].pc \in SuspensionPoints
    /\ task' = [task EXCEPT ![t] = [pc |-> "abandoned", method |-> task[t].method,
                                    at |-> task[t].pc, held |-> lock = Some(t)]]
    /\ lock' = drop_guard(lock, t)
    /\ sends' = [sends EXCEPT ![t] = 0]
    /\ UNCHANGED <<phase, args, base_uri, verbose, headers, mutating, call, granted,
                   client, server>>

\* the caller goes on after the abandoned call
GoOn(t) ==
    /\ task[t].pc = "abandoned"
    /\ task' = [task EXCEPT ![t] = Idle]
    /\ UNCHANGED <<phase, args, base_uri, verbose, headers, lock, mutating, call, granted,
                   client, sends, server>>

CancelBodies ==
    {MagicLink, to_string(Envelope(K_agents, JArr(<<>>))), to_string(Token(tok_a)),
     to_string(Token(tok_bad))}

NextCancel ==
    \E t \in Tasks :
        \/ Begin(t)
        \/ Snapshot(t)
        \/ Receive(t)
        \/ SendError(t)
        \/ Read(t, CancelBodies, NoArg)
        \/ TextError(t)
        \/ LockForWrite(t)
        \/ InsertHeader(t)
        \/ FinishWrite(t)
        \/ Finish(t)
        \/ Abandon(t)
        \/ GoOn(t)

SpecCancel == InitConc /\ [][NextCancel]_vars

\* C27: a call abandoned at any of its suspension points leaves the header
\* lock free of itself (the lock is only ever held by a call still running)
\* and has not touched the headers: the headers change only in the last step
\* of a call that returns, never in or before a step that abandons one.
C27_AbandonedCallLeavesNoTrace ==
    /\ [](\A t \in Tasks : lock = Some(t) => t \in Holders)
    /\ [][/\ headers' # headers
               => \E t \in Tasks : task[t].pc = "inserting" /\ task'[t].pc = "done"
          /\ \A t \in Tasks :
                (task[t].pc # "abandoned" /\ task'[t].pc = "abandoned")
                    => /\ headers' = headers
                       /\ mutating' = mutating
                       /\ lock' # Some(t)
                       /\ lock = Some(t) => lock' = None
         ]_vars

\* C27 witness: task 1 gave up its request in flight, which held the lock; the
\* lock is free again and the login of task 2 has taken it for its write
C27_Witness ==
    /\ task[1].pc = "abandoned"
    /\ task[1].at = "send"
    /\ task[1].held
    /\ task[2].pc = "locked"
    /\ lock = Some(2)

\* C28: after any sequence of operations the headers hold Content-Type:
\* application/json and no name other than Content-Type and Authorization, and
\* an Authorization header, once present, is replaced but never removed.
C28_HeaderShape ==
    /\ [](/\ DOMAIN headers \subseteq {CONTENT_TYPE, AUTHORIZATION}
          /\ CONTENT_TYPE \in DOMAIN headers
          /\ headers[CONTENT_TYPE] = ApplicationJson)
    /\ [][auth_of(headers) # None => auth_of(headers') # None]_vars

\* C28 witness: a login replaced the credential the client was constructed with
C28_Witness ==
    /\ Responded
    /\ call.method = "login"
    /\ auth_of(call.before) = Some(k)
    /\ auth_of(headers) = Some(tok_a)
    /\ DOMAIN headers = {CONTENT_TYPE, AUTHORIZATION}
    /\ headers[CONTENT_TYPE] = ApplicationJson

\* ---------------------------------------------------------------------------
\* Clones of the client, one per task.
\* ---------------------------------------------------------------------------

\* an Arc pointing at the Mutex<HeaderMap> that AGiXTSDK::new allocated (the
\* variable `headers`), and an Arc pointing at a map allocated apart from it
Shared == [t |-> "Arc"]
Apart(map) == [t |-> "Apart", v |-> map]

\* the client AGiXTSDK::new returned
Origin == [base_uri |-> base_uri, client |-> client, headers |-> Shared, verbose |-> verbose]

\* a clone that copies the header map into a Mutex of its own
clone_deep(sdk) ==
    [sdk EXCEPT !.headers = Apart(IF sdk.headers = Shared THEN headers ELSE sdk.headers.v)]

\* #[derive(Clone)]: String::clone, Arc::clone, Arc::clone, bool
clone(sdk) ==
    [base_uri |-> sdk.base_uri, client |-> sdk.client, headers |-> sdk.headers,
     verbose |-> sdk.verbose]

\* the callers' handles: 0 is the original, task t holds a clone
Handles == {0} \cup {t \in Tasks : task[t].pc = "holding"}
Handle(c) == IF c = 0 THEN Origin ELSE task[c].sdk

\* *self.headers.lock().await through a handle
deref(sdk) == IF sdk.headers = Shared THEN headers ELSE sdk.headers.v

\* task t is handed a clone of one of the handles
CloneTo(t) ==
    /\ phase = "ready"
    /\ task[t].pc = "idle"
    /\ \E c \in Handles :
          task' = [task EXCEPT ![t] = [pc |-> "holding", sdk |-> clone(Handle(c))]]
    /\ UNCHANGED <<phase, args, base_uri, verbose, headers, lock, mutating, call, granted,
                   client, sends, server>>

\* task t drops its clone
DropClone(t) ==
    /\ task[t].pc = "holding"
    /\ task' = [task EXCEPT ![t] = Idle]
    /\ UNCHANGED <<phase, args, base_uri, verbose, headers, lock, mutating, call, granted,
                   client, sends, server>>

\* the header map behind handle c becomes `map`
Store(c, map) ==
    IF Handle(c).headers = Shared
    THEN headers' = map /\ UNCHANGED task
    ELSE task' = [task EXCEPT ![c].sdk.headers = Apart(map)] /\ UNCHANGED headers

\* one whole call of method m through handle c
InvokeVia(c, m, outcome, out) ==
    /\ call' = [method |-> m, via |-> c, outcome |-> outcome, result |-> out.result,
                sent |-> IF m \in HeaderMethods THEN Some(deref(Handle(c))) ELSE None]
    /\ Store(c, IF out.write.t = "Some"
                THEN insert_if_valid(deref(Handle(c)), out.write.v)
                ELSE deref(Handle(c)))
    /\ granted' = IF out.write.t = "Some" /\ HeaderValue_from_str_ok(out.write.v)
                  THEN out.write ELSE granted
    /\ UNCHANGED <<phase, args, base_uri, verbose, lock, mutating, client, sends, server>>

CloneOutcomes ==
    {Response(s, b) : s \in {200, 404},
                      b \in {NotFound, to_string(Envelope(K_agents, JArr(<<>>)))}
                            \cup {to_string(Token(tk)) : tk \in {tok_a, tok_b, tok_bad}}}

CallVia(c) ==
    /\ phase = "ready"
    /\ call = NoCall
    /\ \E m \in {"login", "get_agents"}, o \in CloneOutcomes :
          InvokeVia(c, m, o,
                    Outcome(o, decode(m, Handle(c).verbose, o.status, o.text, NoArg)))

InitClone == Init

NextClone ==
    \/ \E t \in Tasks : CloneTo(t) \/ DropClone(t)
    \/ \E c \in Handles : CallVia(c)
    \/ Return

SpecClone == InitClone /\ [][NextClone]_vars

Counterpart ==
    decode(call.method, ~verbose, call.outcome.status, call.outcome.text, call.arg)

\* the result and the headers a call that decodes to `out` ends with
EndsAs(out) ==
    /\ call.result = out.result
    /\ headers = IF out.write.t = "Some" THEN insert_if_valid(call.before, out.write.v)
                 ELSE call.before

\* C30: for every call and every response with a 2xx status, a verbose and a
\* non-verbose client that start from the same headers return the same result
\* and end with the same headers.
C30_VerboseEquivalentOnSuccess ==
    (Responded /\ is_success(call.outcome.status)) => EndsAs(Counterpart)

\* C30 witness: a verbose login answered 201 with a token returned and
\* installed it
C30_Witness ==
    /\ Responded
    /\ verbose
    /\ call.method = "login"
    /\ call.outcome.status = 201
    /\ call.result = Ok(Some(tok_a))
    /\ auth_of(call.before) = None
    /\ auth_of(headers) = Some(tok_a)

====
